---- MODULE Spec2Model ----
(***************************************************************************)
(* State-machine model of the Telegram video bot in src/index.js: the      *)
(* per-message handler, the download orchestrator with its two strategies, *)
(* the file resolvers, the temp-file sweeps and the countdown status       *)
(* session.                                                                *)
(*                                                                         *)
(* A step of the model is what the single-threaded event loop runs between *)
(* two completions of external work (a transport call, a downloader run,   *)
(* the encoder process, the interval timer): the code after an await is    *)
(* folded into the action of the completion that resumes it.               *)
(*                                                                         *)
(* File names are modelled as a job base (the "video_<chat>_<msg>_<ts>"    *)
(* part) followed by a sequence of dot-segments (".mp4", ".f137", ".part", *)
(* ...); prefix tests and the regular expressions of the source are        *)
(* evaluated on these segments.  Error texts are sequences of phrases;     *)
(* toLowerCase and includes() are evaluated phrase by phrase.              *)
(***************************************************************************)
EXTENDS Integers, Sequences, FiniteSets, TLC

VARIABLES
    pc,             \* position of the message handler (which await is pending)
    FFMPEG_PATH,    \* configured encoder path, "" when unset
    files,          \* the downloads directory: set of [name, mtime, origin]
    clock,          \* file-system time, advanced at every file write
    status,         \* TRUE once startCountdownStatus returned the session
    downloadedPath, \* the handler's downloadedPath (NoPath = null)
    videoPath,      \* downloadHighQualityMerged's videoPath
    audioPath,      \* downloadHighQualityMerged's audioPath
    usedFallback,   \* result.usedFallback of downloadVideo
    remaining,      \* the session's remaining-seconds counter
    updating,       \* the session's busy flag
    timerActive,    \* the interval timer exists and is not cleared
    tickEdit,       \* a tick's editMessageText is in flight
    finalEdit,      \* stop()'s editMessageText is in flight
    lastTick,       \* what the latest timer firing did: none/processed/skipped
    shown,          \* seconds value of the latest "Processing video... Ns" text
    finalTexts,     \* the finalText arguments of the stop() calls, in order
    outbox,         \* handler-level transport calls, in order, with outcome
    hqStarts,       \* number of starts of the high-quality path
    progStarts,     \* number of starts of the progressive path
    hqError,        \* the error the high-quality path failed with
    progError,      \* the error the progressive path failed with
    thrown,         \* the error downloadVideo threw to the handler
    resultOrigin,   \* who wrote the file downloadVideo returned
    statSize,       \* stats.size read by the handler (0 = not read)
    resolveOut,     \* resolution harness: what runAndResolveFile resolved
    inbox,          \* texts of the messages polled and not yet handled
    cleanups,       \* number of runs of the catch block's cleanup step
    hqTrace,        \* the steps of the high-quality path, in order
    lastEdit,       \* how the latest settled status edit ended: none/ok/failed
    jobs,           \* two-job harness: each job's position and selected paths
    actor           \* two-job harness: the job that took the latest step

vars == << pc, FFMPEG_PATH, files, clock, status, downloadedPath, videoPath,
           audioPath, usedFallback, remaining, updating, timerActive, tickEdit,
           finalEdit, lastTick, shown, finalTexts, outbox, hqStarts,
           progStarts, hqError, progError, thrown, resultOrigin, statSize,
           resolveOut, inbox, cleanups, hqTrace, lastEdit, jobs, actor >>

twoJobVars == << jobs, actor >>

tickVars == << remaining, updating, tickEdit, lastTick, shown >>

stopVars == << timerActive, finalEdit, finalTexts >>

hqLocals == << videoPath, audioPath >>

history == << hqStarts, progStarts, hqError, progError, thrown, resultOrigin >>

(***************************************************************************)
(* Program constants.                                                      *)
(***************************************************************************)
TELEGRAM_VIDEO_LIMIT_BYTES == 50 * 1024 * 1024

cycleSeconds == 30

(***************************************************************************)
(* The one message of the run: chat 7, message 42, received at Now.        *)
(***************************************************************************)
ChatId == 7

MessageId == 42

Now == 1700000000

(***************************************************************************)
(* Strings: case folding, by phrase or segment.                            *)
(***************************************************************************)
Lower(s) ==
    CASE s = ".MP4" -> ".mp4"
      [] s = ".MKV" -> ".mkv"
      [] s = ".PART" -> ".part"
      [] s = ".F137" -> ".f137"
      [] s = "FFmpeg" -> "ffmpeg"
      [] s = "Stream output was not found" -> "stream output was not found"
      [] s = "Only " -> "only "
      [] s = "Download finished but output video file was not found." ->
             "download finished but output video file was not found."
      [] s = "ERROR: " -> "error: "
      [] s = "Conversion failed!" -> "conversion failed!"
      [] s = " ENOENT" -> " enoent"
      [] s = "ETELEGRAM: " -> "etelegram: "
      [] OTHER -> s

toLowerCase(text) == [i \in DOMAIN text |-> Lower(text[i])]

includes(text, marker) == \E i \in DOMAIN text : text[i] = marker

(***************************************************************************)
(* File names.                                                             *)
(***************************************************************************)
NoPath == [base |-> << >>, segs |-> << >>]

\* mutant: the name carries no timestamp after the message id
buildOutputPath_NoTimestamp(chatId, messageId) ==
    [base |-> << "video", chatId, messageId >>, segs |-> << ".mp4" >>]

\* `video_${chatId}_${messageId}_${Date.now()}.mp4`: base holds the fields
\* that the template joins with "_", segs the dot-separated rest
buildOutputPath(chatId, messageId) ==
    [base |-> << "video", chatId, messageId, Now >>, segs |-> << ".mp4" >>]

\* a number as the template literal prints it, character by character
RECURSIVE Digits(_)
Digits(n) ==
    IF n < 0 THEN << "-" >> \o Digits(0 - n)
    ELSE LET last == << "0", "1", "2", "3", "4", "5", "6", "7", "8", "9" >>[(n % 10) + 1]
         IN  IF n < 10 THEN << last >> ELSE Append(Digits(n \div 10), last)

\* the characters of a base: its word, then "_" and the digits of each field
RECURSIVE Chars(_)
Chars(base) ==
    IF Len(base) = 0 THEN << >>
    ELSE IF Len(base) = 1 THEN << base[1] >>
    ELSE Chars(SubSeq(base, 1, Len(base) - 1)) \o << "_" >>
            \o Digits(base[Len(base)])

IsPrefix(p, s) == Len(p) <= Len(s) /\ SubSeq(s, 1, Len(p)) = p

Append2(path, seg) == [path EXCEPT !.segs = Append(@, seg)]

\* path.basename(p, path.extname(p)): the name without its last segment
BaseNameNoExt(path) ==
    [path EXCEPT !.segs = IF Len(@) = 0 THEN @ ELSE SubSeq(@, 1, Len(@) - 1)]

\* name.startsWith(base): with the same base, segment by segment; with
\* another base, character by character (a prefix that has a dot segment
\* cannot match then, a base having no dot and the fields no "_")
StartsWith(name, prefix) ==
    IF name.base = prefix.base
    THEN IsPrefix(prefix.segs, name.segs)
    ELSE prefix.segs = << >> /\ IsPrefix(Chars(prefix.base), Chars(name.base))

LastSeg(name) == IF Len(name.segs) = 0 THEN "" ELSE name.segs[Len(name.segs)]

\* /\.part$/i
IsPartial(name) == Lower(LastSeg(name)) = ".part"

\* /\.(mp4|mkv|webm|mov|m4v)$/i
IsRecognized(name) ==
    Lower(LastSeg(name)) \in { ".mp4", ".mkv", ".webm", ".mov", ".m4v" }

\* /\.mp4$/i
IsMp4(name) == Lower(LastSeg(name)) = ".mp4"

\* /\.f\d+\./i : a ".f<digits>" segment that another segment follows
IsIntermediate(name) ==
    \E i \in 1 .. (Len(name.segs) - 1) : Lower(name.segs[i]) \in { ".f137", ".f18" }

(***************************************************************************)
(* The downloads directory.                                                *)
(***************************************************************************)
Names(dir) == { f.name : f \in dir }

existsSync(dir, path) == path \in Names(dir)

Entry(dir, name) == CHOOSE f \in dir : f.name = name

\* fs.unlinkSync guarded by existsSync
safeDelete(dir, path) == { f \in dir : f.name # path }

cleanupByPrefix(dir, prefixPath) == { f \in dir : ~StartsWith(f.name, prefixPath) }

\* an external tool writes (or overwrites) the file `name`
WriteFile(dir, name, time, origin) ==
    { f \in dir : f.name # name } \cup
        { [name |-> name, mtime |-> time, origin |-> origin] }

RECURSIVE WriteAll(_, _, _, _)
WriteAll(dir, names, time, origin) ==
    IF names = << >> THEN dir
    ELSE WriteAll(WriteFile(dir, Head(names), time, origin), Tail(names),
                  time + 1, origin)

(***************************************************************************)
(* The job's paths and the file names the external tools may produce.      *)
(***************************************************************************)
OutputPath == buildOutputPath(ChatId, MessageId)

RequestedBase == BaseNameNoExt(OutputPath)

\* `${outputPath}.hq_${Date.now()}`
TempPrefix == Append2(OutputPath, ".hq_1700000005")

VideoPrefix == Append2(TempPrefix, ".video")

AudioPrefix == Append2(TempPrefix, ".audio")

Ext(path, segs) == [path EXCEPT !.segs = @ \o segs]

\* readdirSync order: the position of a name in this list
AllNames ==
    << OutputPath,
       Ext(RequestedBase, << ".mkv" >>),
       Ext(RequestedBase, << ".MP4" >>),
       Ext(RequestedBase, << ".f18", ".mp4" >>),
       Ext(RequestedBase, << ".F137", ".webm" >>),
       Ext(OutputPath, << ".ytdl" >>),
       Ext(OutputPath, << ".part" >>),
       Ext(RequestedBase, << ".mkv", ".PART" >>),
       Ext(VideoPrefix, << ".webm" >>),
       Ext(VideoPrefix, << ".mp4" >>),
       Ext(VideoPrefix, << ".mp4", ".part" >>),
       Ext(AudioPrefix, << ".m4a" >>),
       Ext(AudioPrefix, << ".m4a", ".part" >>) >>

\* the same name under the base of another job's output path
ForJob(path, outputPath) ==
    IF path = NoPath THEN NoPath ELSE [path EXCEPT !.base = outputPath.base]

\* output paths of a second message handled at the same millisecond: its
\* ids share leading digits with the first message's, or its chat is a
\* group (a negative chat id)
OtherOutputPaths ==
    << buildOutputPath(ChatId, 4), buildOutputPath(74, 2),
       buildOutputPath(0 - ChatId, MessageId) >>

OtherNames ==
    [k \in 1 .. (Len(OtherOutputPaths) * Len(AllNames)) |->
        ForJob(AllNames[((k - 1) % Len(AllNames)) + 1],
               OtherOutputPaths[((k - 1) \div Len(AllNames)) + 1])]

readdirSync(dir) == SelectSeq(AllNames \o OtherNames, LAMBDA n : n \in Names(dir))

\* Array.prototype.sort with (a, b) => mtime(b) - mtime(a): stable, newest first
RECURSIVE InsertByMtime(_, _, _)
InsertByMtime(dir, sorted, name) ==
    IF sorted = << >> THEN << name >>
    ELSE IF Entry(dir, Head(sorted)).mtime >= Entry(dir, name).mtime
         THEN << Head(sorted) >> \o InsertByMtime(dir, Tail(sorted), name)
         ELSE << name >> \o sorted

RECURSIVE SortNewestFirst(_, _, _)
SortNewestFirst(dir, sorted, rest) ==
    IF rest = << >> THEN sorted
    ELSE SortNewestFirst(dir, InsertByMtime(dir, sorted, Head(rest)), Tail(rest))

\* Array.prototype.find over the elements satisfying the test: the first one,
\* NoPath (undefined) if none
First(hits) == IF hits = << >> THEN NoPath ELSE hits[1]

(***************************************************************************)
(* Errors: [stderr, message], each a sequence of phrases.                  *)
(***************************************************************************)
NoError == [stderr |-> << >>, message |-> << >>]

Error(text) == [stderr |-> << >>, message |-> text]

ErrStreamNotFound(prefixPath) ==
    Error(<< "Stream output was not found", " for prefix: ", LastSeg(prefixPath) >>)

ErrOutputNotFound ==
    Error(<< "Download finished but output video file was not found." >>)

ErrOnlyIntermediate ==
    Error(<< "Only ", "intermediate stream files", " were found after download." >>)

(***************************************************************************)
(* File resolution.                                                        *)
(***************************************************************************)
resolveFileByPrefix(dir, prefixPath) ==
    LET listed  == SelectSeq(readdirSync(dir), LAMBDA n : StartsWith(n, prefixPath))
        kept    == SelectSeq(listed, LAMBDA n : ~IsPartial(n))
        matches == SortNewestFirst(dir, << >>, kept)
    IN  IF matches = << >> THEN NoPath ELSE matches[1]

\* mutant: no preference for .mp4, the newest clean entry is returned
ScanForOutput_NewestClean(dir, outputPath) ==
    LET requestedBase == BaseNameNoExt(outputPath)
        listed  == SelectSeq(readdirSync(dir), LAMBDA n : StartsWith(n, requestedBase))
        noPart  == SelectSeq(listed, LAMBDA n : ~IsPartial(n))
        media   == SelectSeq(noPart, LAMBDA n : IsRecognized(n))
        matches == SortNewestFirst(dir, << >>, media)
        cleanOther == First(SelectSeq(matches, LAMBDA n : ~IsIntermediate(n)))
    IN  IF matches = << >>
        THEN [path |-> NoPath, error |-> ErrOutputNotFound]
        ELSE IF cleanOther = NoPath
             THEN [path |-> NoPath, error |-> ErrOnlyIntermediate]
             ELSE [path |-> cleanOther, error |-> NoError]

\* the directory scan of runAndResolveFile, taken when outputPath is absent
ScanForOutput(dir, outputPath) ==
    LET requestedBase == BaseNameNoExt(outputPath)
        listed  == SelectSeq(readdirSync(dir), LAMBDA n : StartsWith(n, requestedBase))
        noPart  == SelectSeq(listed, LAMBDA n : ~IsPartial(n))
        media   == SelectSeq(noPart, LAMBDA n : IsRecognized(n))
        matches == SortNewestFirst(dir, << >>, media)
        cleanMp4   == First(SelectSeq(matches, LAMBDA n : IsMp4(n) /\ ~IsIntermediate(n)))
        cleanOther == First(SelectSeq(matches, LAMBDA n : ~IsIntermediate(n)))
    IN  IF matches = << >>
        THEN [path |-> NoPath, error |-> ErrOutputNotFound]
        ELSE IF cleanMp4 = NoPath /\ cleanOther = NoPath
             THEN [path |-> NoPath, error |-> ErrOnlyIntermediate]
             ELSE [path |-> IF cleanMp4 # NoPath THEN cleanMp4 ELSE cleanOther,
                   error |-> NoError]

\* runAndResolveFile after downloadFn returned normally
ResolveOutput(dir, outputPath) ==
    IF existsSync(dir, outputPath)
    THEN [path |-> outputPath, error |-> NoError]
    ELSE ScanForOutput(dir, outputPath)

(***************************************************************************)
(* downloadVideo's classification of a high-quality failure.               *)
(***************************************************************************)
\* String(error?.stderr || error?.message || error)
ErrorText(error) == IF error.stderr # << >> THEN error.stderr ELSE error.message

looksLikeMergeIssue(error) ==
    LET message == toLowerCase(ErrorText(error))
    IN  \/ includes(message, "ffmpeg")
        \/ includes(message, "intermediate stream files")
        \/ includes(message, "stream output was not found")

\* mutant: the encoder marker is not among the fallback markers
downloadVideoCatch_NoFfmpegMarker(error) ==
    LET message == toLowerCase(ErrorText(error))
    IN  IF \/ includes(message, "intermediate stream files")
           \/ includes(message, "stream output was not found")
        THEN [fallback |-> TRUE, throw |-> NoError]
        ELSE [fallback |-> FALSE, throw |-> error]

\* mutant: a new error is thrown in place of the caught one
downloadVideoCatch_Wrapped(error) ==
    IF ~looksLikeMergeIssue(error)
    THEN [fallback |-> FALSE, throw |-> Error(ErrorText(error))]
    ELSE [fallback |-> TRUE, throw |-> NoError]

\* the catch block of downloadVideo: rethrow the error, or fall back
downloadVideoCatch(error) ==
    IF ~looksLikeMergeIssue(error)
    THEN [fallback |-> FALSE, throw |-> error]
    ELSE [fallback |-> TRUE, throw |-> NoError]

(***************************************************************************)
(* What the external collaborators may do.                                 *)
(***************************************************************************)
\* a downloader run that exits non-zero (an execa error: stderr and message)
ErrNetwork ==
    [stderr  |-> << "ERROR: ", "network unreachable" >>,
     message |-> << "Command failed with exit code 1" >>]

ErrNoEncoder ==
    [stderr  |-> << "ERROR: ", "FFmpeg", " not found" >>,
     message |-> << "Command failed with exit code 1" >>]

DownloaderErrors == { ErrNetwork, ErrNoEncoder }

\* a rejected transport call
ErrTransport == Error(<< "ETELEGRAM: ", "400 Bad Request" >>)

\* the most files one run of an external tool writes
MaxWrites == 2

VideoOutcomes ==
    { [error |-> NoError, wrote |-> w] :
        w \in { << >>,
                << Ext(VideoPrefix, << ".webm" >>) >>,
                << Ext(VideoPrefix, << ".mp4" >>), Ext(VideoPrefix, << ".webm" >>) >>,
                << Ext(VideoPrefix, << ".mp4", ".part" >>) >> } }
    \cup
    { [error |-> e, wrote |-> w] :
        e \in DownloaderErrors,
        w \in { << >>, << Ext(VideoPrefix, << ".mp4", ".part" >>) >> } }

AudioOutcomes ==
    { [error |-> NoError, wrote |-> w] :
        w \in { << >>, << Ext(AudioPrefix, << ".m4a" >>) >> } }
    \cup
    { [error |-> e, wrote |-> w] :
        e \in DownloaderErrors,
        w \in { << >>, << Ext(AudioPrefix, << ".m4a", ".part" >>) >> } }

ProgressiveOutcomes ==
    { [error |-> NoError, wrote |-> w] :
        w \in { << >>,
                << OutputPath >>,
                << Ext(RequestedBase, << ".mkv" >>) >>,
                << Ext(RequestedBase, << ".f18", ".mp4" >>) >>,
                << Ext(RequestedBase, << ".f18", ".mp4" >>),
                   Ext(RequestedBase, << ".mkv" >>) >>,
                << Ext(OutputPath, << ".part" >>) >> } }
    \cup
    { [error |-> e, wrote |-> w] :
        e \in DownloaderErrors,
        w \in { << >>, << Ext(OutputPath, << ".part" >>) >> } }

\* the encoder process: a failed spawn, or an exit with code and stderr text,
\* having written the output file or not
MergeOutcomes ==
    { [spawned |-> FALSE, code |-> "", stderr |-> << >>, wrote |-> FALSE] }
    \cup
    { [spawned |-> TRUE, code |-> c, stderr |-> t, wrote |-> w] :
        c \in { "0", "1" },
        t \in { << >>,
                << "ffmpeg", " version 6.0 ", "Conversion failed!" >>,
                << "Conversion failed!" >> },
        w \in BOOLEAN }

Sizes ==
    { TELEGRAM_VIDEO_LIMIT_BYTES - 1,
      TELEGRAM_VIDEO_LIMIT_BYTES,
      TELEGRAM_VIDEO_LIMIT_BYTES + 1 }

\* message texts, word by word
Texts ==
    { << >>,
      << "hello" >>,
      << "https://youtu.be/short" >>,
      << "check", "this", "out", "https://youtu.be/dQw4w9WgXcQ?t=5", "thanks" >>,
      << "https://www.youtube.com/watch?v=dQw4w9WgXcQ" >> }

\* YOUTUBE_URL_REGEX, word by word
MatchesUrl(word) ==
    word \in { "https://youtu.be/dQw4w9WgXcQ?t=5",
               "https://www.youtube.com/watch?v=dQw4w9WgXcQ" }

\* extractYouTubeUrl with the pattern's host part only: any youtu.be or
\* youtube.com address counts, whatever the length of the video id
extractYouTubeUrl_AnyId(text) ==
    LET hits == SelectSeq(text, LAMBDA word :
                    MatchesUrl(word) \/ word = "https://youtu.be/short")
    IN  IF hits = << >> THEN "" ELSE hits[1]

extractYouTubeUrl(text) ==
    LET hits == SelectSeq(text, MatchesUrl)
    IN  IF hits = << >> THEN "" ELSE hits[1]

(***************************************************************************)
(* Initial state: the bot is polling, the downloads directory is empty.    *)
(***************************************************************************)
NotResolved == [path |-> NoPath, error |-> NoError]

Init ==
    /\ pc = "idle"
    /\ inbox \in { << text >> : text \in Texts }
    /\ FFMPEG_PATH \in { "", "/opt/encoders/avconv" }
    /\ files = {}
    /\ clock = 1
    /\ status = FALSE
    /\ downloadedPath = NoPath
    /\ videoPath = NoPath
    /\ audioPath = NoPath
    /\ usedFallback = FALSE
    /\ remaining = cycleSeconds
    /\ updating = FALSE
    /\ timerActive = FALSE
    /\ tickEdit = FALSE
    /\ finalEdit = FALSE
    /\ lastTick = "none"
    /\ shown = 0
    /\ finalTexts = << >>
    /\ outbox = << >>
    /\ hqStarts = 0
    /\ progStarts = 0
    /\ hqError = NoError
    /\ progError = NoError
    /\ thrown = NoError
    /\ resultOrigin = "none"
    /\ statSize = 0
    /\ resolveOut = NotResolved
    /\ cleanups = 0
    /\ hqTrace = << >>
    /\ lastEdit = "none"
    /\ jobs = << >>
    /\ actor = 0

(***************************************************************************)
(* Control transfers shared by the handler's steps.  Each sets pc and the  *)
(* stop() variables.                                                       *)
(***************************************************************************)
Sent(call, text, ok) == Append(outbox, [call |-> call, text |-> text, ok |-> ok])

\* status.stop(finalText) up to its await: clearInterval, then the edit is issued
StopIssued(finalText, nextPc) ==
    /\ timerActive' = FALSE
    /\ finalEdit' = TRUE
    /\ finalTexts' = Append(finalTexts, finalText)
    /\ pc' = nextPc

Goto(nextPc) ==
    /\ pc' = nextPc
    /\ UNCHANGED stopVars

\* mutant: the catch block does not stop the session
Catch_NoStop == Goto("awaitFailureNotice")

\* entry of the handler's catch block, up to its first await
Catch ==
    IF status
    THEN StopIssued("Failed to download or send the video.", "awaitStopFailed")
    ELSE Goto("awaitFailureNotice")

\* fs.statSync, the size test, and the call that follows it
StatAndDeliver ==
    \E size \in Sizes :
        /\ statSize' = size
        /\ IF size > TELEGRAM_VIDEO_LIMIT_BYTES
           THEN StopIssued("Video too large to send.", "awaitStopTooLarge")
           ELSE Goto("awaitSendVideo")

\* mutant: only the two resolved stream files are deleted
HqCleanup_ResolvedOnly(dir) == safeDelete(safeDelete(dir, videoPath), audioPath)

\* the finally block of downloadHighQualityMerged
HqCleanup(dir) == cleanupByPrefix(cleanupByPrefix(dir, VideoPrefix), AudioPrefix)

\* downloadVideo after the high-quality path failed with `error`
HqFailed(error) ==
    LET decision == downloadVideoCatch(error)
    IN  /\ hqError' = error
        /\ UNCHANGED << hqStarts, progError, resultOrigin >>
        /\ UNCHANGED << downloadedPath, usedFallback, statSize >>
        /\ IF decision.fallback
           THEN /\ progStarts' = progStarts + 1
                /\ thrown' = thrown
                /\ Goto("awaitProgressive")
           ELSE /\ progStarts' = progStarts
                /\ thrown' = decision.throw
                /\ Catch

\* downloadVideo returned { filePath, usedFallback } to the handler
Returned(dir, filePath, fallback) ==
    /\ downloadedPath' = filePath
    /\ usedFallback' = fallback
    /\ resultOrigin' = Entry(dir, filePath).origin
    /\ IF fallback
       THEN Goto("awaitFallbackNotice") /\ UNCHANGED statSize
       ELSE StatAndDeliver

(***************************************************************************)
(* The message handler.                                                    *)
(***************************************************************************)
\* bot.on('message'): up to the sendMessage of startCountdownStatus
OnMessage(text) ==
    /\ pc = "idle"
    /\ inbox # << >>
    /\ text = Head(inbox)
    /\ inbox' = Tail(inbox)
    /\ IF extractYouTubeUrl(text) = ""
       THEN /\ pc' = "ignored"
            /\ UNCHANGED << remaining, shown >>
       ELSE /\ pc' = "awaitStatusMsg"
            /\ remaining' = cycleSeconds
            /\ shown' = cycleSeconds
    /\ UNCHANGED << updating, tickEdit, lastTick >>
    /\ UNCHANGED << FFMPEG_PATH, files, clock, status, downloadedPath, hqLocals,
                    usedFallback, stopVars, outbox, history, statSize, resolveOut,
                    twoJobVars, cleanups, hqTrace, lastEdit >>

\* the status message was sent (the timer starts and downloadVideo begins the
\* high-quality path) or the send failed
StatusMsgDone(ok) ==
    /\ pc = "awaitStatusMsg"
    /\ outbox' = Sent("sendMessage", "Processing video...", ok)
    /\ IF ok
       THEN /\ status' = TRUE
            /\ timerActive' = TRUE
            /\ hqStarts' = hqStarts + 1
            /\ hqTrace' = Append(hqTrace, "video:start")
            /\ pc' = "awaitVideo"
            /\ UNCHANGED << finalEdit, finalTexts >>
       ELSE /\ Catch
            /\ UNCHANGED << status, hqStarts, hqTrace >>
    /\ UNCHANGED << progStarts, hqError, progError, thrown, resultOrigin >>
    /\ UNCHANGED << FFMPEG_PATH, files, clock, downloadedPath, hqLocals,
                    usedFallback, tickVars, statSize, resolveOut,
                    twoJobVars, inbox, cleanups, lastEdit >>

\* mutant: a failed video fetch is swallowed and the audio fetch starts anyway
VideoFetchDone_AudioAnyway(o) ==
    /\ pc = "awaitVideo"
    /\ clock' = clock + MaxWrites
    /\ LET written == WriteAll(files, o.wrote, clock, "video")
           found   == resolveFileByPrefix(written, VideoPrefix)
           failed  == o.error # NoError \/ found = NoPath
       IN  /\ files' = written
           /\ hqTrace' = hqTrace \o << IF failed THEN "video:failed"
                                                 ELSE "video:ok",
                                       "audio:start" >>
           /\ videoPath' = IF o.error # NoError THEN NoPath ELSE found
           /\ audioPath' = audioPath
           /\ Goto("awaitAudio")
           /\ UNCHANGED << history, downloadedPath, usedFallback, statSize >>
    /\ UNCHANGED << FFMPEG_PATH, status, tickVars, outbox, resolveOut,
                    twoJobVars, inbox, cleanups, lastEdit >>

\* downloadSingleStream for the video stream completed
VideoFetchDone(o) ==
    /\ pc = "awaitVideo"
    /\ clock' = clock + MaxWrites
    /\ LET written == WriteAll(files, o.wrote, clock, "video")
           found   == resolveFileByPrefix(written, VideoPrefix)
       IN  IF o.error # NoError
           THEN files' = HqCleanup(written) /\ HqFailed(o.error)
                /\ hqTrace' = Append(hqTrace, "video:failed")
                /\ UNCHANGED hqLocals
           ELSE IF found = NoPath
                THEN files' = HqCleanup(written)
                     /\ HqFailed(ErrStreamNotFound(VideoPrefix))
                     /\ hqTrace' = Append(hqTrace, "video:failed")
                     /\ UNCHANGED hqLocals
                ELSE /\ files' = written
                     /\ hqTrace' = hqTrace \o << "video:ok", "audio:start" >>
                     /\ videoPath' = found
                     /\ audioPath' = audioPath
                     /\ Goto("awaitAudio")
                     /\ UNCHANGED << history, downloadedPath, usedFallback,
                                     statSize >>
    /\ UNCHANGED << FFMPEG_PATH, status, tickVars, outbox, resolveOut,
                    twoJobVars, inbox, cleanups, lastEdit >>

\* downloadSingleStream for the audio stream completed; on success
\* mergeWithFfmpeg deletes the output path and spawns the encoder
AudioFetchDone(o) ==
    /\ pc = "awaitAudio"
    /\ clock' = clock + MaxWrites
    /\ LET written == WriteAll(files, o.wrote, clock, "audio")
           found   == resolveFileByPrefix(written, AudioPrefix)
       IN  IF o.error # NoError
           THEN files' = HqCleanup(written) /\ HqFailed(o.error)
                /\ hqTrace' = Append(hqTrace, "audio:failed")
                /\ videoPath' = NoPath /\ audioPath' = NoPath
           ELSE IF found = NoPath
                THEN files' = HqCleanup(written)
                     /\ HqFailed(ErrStreamNotFound(AudioPrefix))
                     /\ hqTrace' = Append(hqTrace, "audio:failed")
                     /\ videoPath' = NoPath /\ audioPath' = NoPath
                ELSE /\ files' = safeDelete(written, OutputPath)
                     /\ hqTrace' = hqTrace \o << "audio:ok", "merge:start" >>
                     /\ videoPath' = videoPath
                     /\ audioPath' = found
                     /\ Goto("awaitMerge")
                     /\ UNCHANGED << history, downloadedPath, usedFallback,
                                     statSize >>
    /\ UNCHANGED << FFMPEG_PATH, status, tickVars, outbox, resolveOut,
                    twoJobVars, inbox, cleanups, lastEdit >>

\* FFMPEG_PATH || 'ffmpeg'
ffmpegBin == IF FFMPEG_PATH = "" THEN "ffmpeg" ELSE FFMPEG_PATH

\* how the promise of mergeWithFfmpeg settles: NoError when it resolves
mergeWithFfmpeg(o, dirAfter) ==
    IF ~o.spawned
    THEN Error(<< "spawn ", ffmpegBin, " ENOENT" >>)
    ELSE IF o.code = "0" /\ existsSync(dirAfter, OutputPath)
         THEN NoError
         ELSE Error(IF o.stderr # << >> THEN o.stderr
                    ELSE << "ffmpeg", " exited with code ", o.code >>)

\* the encoder process ended; the finally block runs, then runAndResolveFile
\* resolves the output and downloadVideo returns, or the failure is classified
MergeDone(o) ==
    /\ pc = "awaitMerge"
    /\ clock' = clock + MaxWrites
    /\ videoPath' = NoPath
    /\ audioPath' = NoPath
    /\ LET written == IF o.spawned /\ o.wrote
                      THEN WriteFile(files, OutputPath, clock,
                                     IF o.code = "0" THEN "merge" ELSE "failedMerge")
                      ELSE files
           failure == mergeWithFfmpeg(o, written)
           cleaned == HqCleanup(written)
           res     == ResolveOutput(cleaned, OutputPath)
       IN  /\ files' = cleaned
           /\ hqTrace' = Append(hqTrace, IF failure # NoError THEN "merge:failed"
                                          ELSE "merge:ok")
           /\ IF failure # NoError
              THEN HqFailed(failure)
              ELSE IF res.error # NoError
                   THEN HqFailed(res.error)
                   ELSE /\ Returned(cleaned, res.path, FALSE)
                        /\ UNCHANGED << hqStarts, progStarts, hqError, progError,
                                        thrown >>
    /\ UNCHANGED << FFMPEG_PATH, status, tickVars, outbox, resolveOut,
                    twoJobVars, inbox, cleanups, lastEdit >>

\* the progressive download ended; runAndResolveFile resolves its output
ProgressiveDone(o) ==
    /\ pc = "awaitProgressive"
    /\ clock' = clock + MaxWrites
    /\ LET written == WriteAll(files, o.wrote, clock, "progressive")
           res     == ResolveOutput(written, OutputPath)
           failure == IF o.error # NoError THEN o.error ELSE res.error
       IN  /\ files' = written
           /\ IF failure # NoError
              THEN /\ progError' = failure
                   /\ thrown' = failure
                   /\ Catch
                   /\ UNCHANGED << resultOrigin, downloadedPath, usedFallback,
                                   statSize >>
              ELSE /\ Returned(written, res.path, TRUE)
                   /\ UNCHANGED << progError, thrown >>
    /\ UNCHANGED << hqStarts, progStarts, hqError >>
    /\ UNCHANGED << FFMPEG_PATH, status, hqLocals, tickVars, outbox, resolveOut,
                    twoJobVars, inbox, cleanups, hqTrace, lastEdit >>

\* the fallback notice was sent, or the send failed
FallbackNoticeDone(ok) ==
    /\ pc = "awaitFallbackNotice"
    /\ outbox' = Sent("sendMessage", "Sent fallback quality", ok)
    /\ IF ok THEN StatAndDeliver ELSE Catch /\ UNCHANGED statSize
    /\ UNCHANGED << FFMPEG_PATH, files, clock, status, downloadedPath, hqLocals,
                    usedFallback, tickVars, history, resolveOut,
                    twoJobVars, inbox, cleanups, hqTrace, lastEdit >>

\* bot.sendVideo settled; on success stop('Video sent successfully.') is called
SendVideoDone(ok) ==
    /\ pc = "awaitSendVideo"
    /\ outbox' = Sent("sendVideo", "Here is your downloaded video.", ok)
    /\ IF ok
       THEN StopIssued("Video sent successfully.", "awaitStopSuccess")
       ELSE Catch
    /\ UNCHANGED << FFMPEG_PATH, files, clock, status, downloadedPath, hqLocals,
                    usedFallback, tickVars, history, statSize, resolveOut,
                    twoJobVars, inbox, cleanups, hqTrace, lastEdit >>

\* the final edit of stop('Video sent successfully.') settled (a failure is
\* swallowed); the handler deletes the file and returns
StopSuccessDone(ok) ==
    /\ pc = "awaitStopSuccess"
    /\ finalEdit
    /\ finalEdit' = FALSE
    /\ lastEdit' = IF ok THEN "ok" ELSE "failed"
    /\ files' = safeDelete(files, downloadedPath)
    /\ pc' = "returned"
    /\ UNCHANGED << timerActive, finalTexts >>
    /\ UNCHANGED << FFMPEG_PATH, clock, status, downloadedPath, hqLocals,
                    usedFallback, tickVars, outbox, history, statSize,
                    resolveOut,
                    twoJobVars, inbox, cleanups, hqTrace >>

\* the final edit of stop('Video too large to send.') settled; the notice is sent
StopTooLargeDone(ok) ==
    /\ pc = "awaitStopTooLarge"
    /\ finalEdit
    /\ finalEdit' = FALSE
    /\ lastEdit' = IF ok THEN "ok" ELSE "failed"
    /\ pc' = "awaitTooLargeNotice"
    /\ UNCHANGED << timerActive, finalTexts >>
    /\ UNCHANGED << FFMPEG_PATH, files, clock, status, downloadedPath, hqLocals,
                    usedFallback, tickVars, outbox, history, statSize,
                    resolveOut,
                    twoJobVars, inbox, cleanups, hqTrace >>

\* mutant: a rejected "too large" notice is swallowed and the handler returns
TooLargeNoticeDone_Swallowed(ok) ==
    /\ pc = "awaitTooLargeNotice"
    /\ outbox' = Sent("sendMessage", "Video too large to send.", ok)
    /\ files' = safeDelete(files, downloadedPath)
    /\ Goto("returned")
    /\ UNCHANGED << FFMPEG_PATH, clock, status, downloadedPath, hqLocals,
                    usedFallback, tickVars, history, statSize, resolveOut,
                    twoJobVars, inbox, cleanups, hqTrace, lastEdit >>

\* the "too large" notice settled: delete the file and return, or catch
TooLargeNoticeDone(ok) ==
    /\ pc = "awaitTooLargeNotice"
    /\ outbox' = Sent("sendMessage", "Video too large to send.", ok)
    /\ IF ok
       THEN /\ files' = safeDelete(files, downloadedPath)
            /\ Goto("returned")
       ELSE /\ files' = files
            /\ Catch
    /\ UNCHANGED << FFMPEG_PATH, clock, status, downloadedPath, hqLocals,
                    usedFallback, tickVars, history, statSize, resolveOut,
                    twoJobVars, inbox, cleanups, hqTrace, lastEdit >>

\* the final edit of stop('Failed ...') in the catch block settled; the
\* failure notice is sent
StopFailedDone(ok) ==
    /\ pc = "awaitStopFailed"
    /\ finalEdit
    /\ finalEdit' = FALSE
    /\ lastEdit' = IF ok THEN "ok" ELSE "failed"
    /\ pc' = "awaitFailureNotice"
    /\ UNCHANGED << timerActive, finalTexts >>
    /\ UNCHANGED << FFMPEG_PATH, files, clock, status, downloadedPath, hqLocals,
                    usedFallback, tickVars, outbox, history, statSize,
                    resolveOut,
                    twoJobVars, inbox, cleanups, hqTrace >>

\* the failure notice of the catch block settled: on success the temp files
\* are cleaned up and the handler returns; on failure the handler's promise
\* rejects there
FailureNoticeDone(ok) ==
    /\ pc = "awaitFailureNotice"
    /\ outbox' = Sent("sendMessage", "Failed to download or send the video.", ok)
    /\ IF ok
       THEN /\ files' = IF downloadedPath # NoPath
                        THEN safeDelete(files, downloadedPath)
                        ELSE cleanupByPrefix(files, OutputPath)
            /\ cleanups' = cleanups + 1
            /\ pc' = "returned"
       ELSE /\ files' = files
            /\ cleanups' = cleanups
            /\ pc' = "rejected"
    /\ UNCHANGED stopVars
    /\ UNCHANGED << FFMPEG_PATH, clock, status, downloadedPath, hqLocals,
                    usedFallback, tickVars, history, statSize, resolveOut,
                    twoJobVars, inbox, hqTrace, lastEdit >>

(***************************************************************************)
(* The countdown session's interval callback.                              *)
(***************************************************************************)
\* mutant: the counter wraps only below zero
Tick_WrapBelowZero ==
    /\ timerActive
    /\ IF updating
       THEN /\ lastTick' = "skipped"
            /\ UNCHANGED << remaining, updating, tickEdit, shown >>
       ELSE /\ updating' = TRUE
            /\ remaining' = IF remaining - 1 < 0 THEN cycleSeconds
                            ELSE remaining - 1
            /\ tickEdit' = TRUE
            /\ shown' = remaining'
            /\ lastTick' = "processed"
    /\ UNCHANGED << pc, FFMPEG_PATH, files, clock, status, downloadedPath,
                    hqLocals, usedFallback, stopVars, outbox, history, statSize,
                    resolveOut,
                    twoJobVars, inbox, cleanups, hqTrace, lastEdit >>

\* the timer fires: the callback returns at once when an edit is pending,
\* otherwise it steps the counter and issues the edit
Tick ==
    /\ timerActive
    /\ IF updating
       THEN /\ lastTick' = "skipped"
            /\ UNCHANGED << remaining, updating, tickEdit, shown >>
       ELSE /\ updating' = TRUE
            /\ remaining' = IF remaining - 1 <= 0 THEN cycleSeconds
                            ELSE remaining - 1
            /\ tickEdit' = TRUE
            /\ shown' = remaining'
            /\ lastTick' = "processed"
    /\ UNCHANGED << pc, FFMPEG_PATH, files, clock, status, downloadedPath,
                    hqLocals, usedFallback, stopVars, outbox, history, statSize,
                    resolveOut,
                    twoJobVars, inbox, cleanups, hqTrace, lastEdit >>

\* mutant: the busy flag is released only after an edit that succeeded
TickEditDone_NoFinally(ok) ==
    /\ tickEdit
    /\ tickEdit' = FALSE
    /\ updating' = ~ok
    /\ lastEdit' = IF ok THEN "ok" ELSE "failed"
    /\ UNCHANGED << remaining, lastTick, shown >>
    /\ UNCHANGED << pc, FFMPEG_PATH, files, clock, status, downloadedPath,
                    hqLocals, usedFallback, stopVars, outbox, history, statSize,
                    resolveOut, twoJobVars, inbox, cleanups, hqTrace >>

\* the tick's editMessageText settled; a failure is swallowed and the finally
\* block releases the busy flag
TickEditDone(ok) ==
    /\ tickEdit
    /\ tickEdit' = FALSE
    /\ updating' = FALSE
    /\ lastEdit' = IF ok THEN "ok" ELSE "failed"
    /\ UNCHANGED << remaining, lastTick, shown >>
    /\ UNCHANGED << pc, FFMPEG_PATH, files, clock, status, downloadedPath,
                    hqLocals, usedFallback, stopVars, outbox, history, statSize,
                    resolveOut,
                    twoJobVars, inbox, cleanups, hqTrace >>

Next ==
    \/ \E text \in Texts : OnMessage(text)
    \/ \E ok \in BOOLEAN : StatusMsgDone(ok)
    \/ \E o \in VideoOutcomes : VideoFetchDone(o)
    \/ \E o \in AudioOutcomes : AudioFetchDone(o)
    \/ \E o \in MergeOutcomes : MergeDone(o)
    \/ \E o \in ProgressiveOutcomes : ProgressiveDone(o)
    \/ \E ok \in BOOLEAN : FallbackNoticeDone(ok)
    \/ \E ok \in BOOLEAN : SendVideoDone(ok)
    \/ \E ok \in BOOLEAN : StopSuccessDone(ok)
    \/ \E ok \in BOOLEAN : StopTooLargeDone(ok)
    \/ \E ok \in BOOLEAN : TooLargeNoticeDone(ok)
    \/ \E ok \in BOOLEAN : StopFailedDone(ok)
    \/ \E ok \in BOOLEAN : FailureNoticeDone(ok)
    \/ Tick
    \/ \E ok \in BOOLEAN : TickEditDone(ok)

Spec == Init /\ [][Next]_vars

(***************************************************************************)
(* File resolution on its own: runAndResolveFile's resolution applied to   *)
(* every small directory of files sharing the job's base name, as a        *)
(* download may leave it (the stream temp files are swept before).         *)
(***************************************************************************)
\* the most entries of a directory, and the latest modification time
MaxFiles == 4

MaxMtime == 3

ScanNames == { AllNames[i] : i \in 1 .. 8 }

InitResolve ==
    /\ pc = "scan"
    /\ inbox = << >>
    /\ \E S \in SUBSET ScanNames :
          /\ Cardinality(S) <= MaxFiles
          /\ \E m \in [S -> 1 .. MaxMtime] :
                files = { [name |-> n, mtime |-> m[n], origin |-> "progressive"] :
                          n \in S }
    /\ FFMPEG_PATH = ""
    /\ clock = MaxMtime + 1
    /\ status = TRUE
    /\ downloadedPath = NoPath
    /\ videoPath = NoPath
    /\ audioPath = NoPath
    /\ usedFallback = FALSE
    /\ remaining = cycleSeconds
    /\ updating = FALSE
    /\ timerActive = FALSE
    /\ tickEdit = FALSE
    /\ finalEdit = FALSE
    /\ lastTick = "none"
    /\ shown = 0
    /\ finalTexts = << >>
    /\ outbox = << >>
    /\ hqStarts = 0
    /\ progStarts = 0
    /\ hqError = NoError
    /\ progError = NoError
    /\ thrown = NoError
    /\ resultOrigin = "none"
    /\ statSize = 0
    /\ resolveOut = NotResolved
    /\ cleanups = 0
    /\ hqTrace = << >>
    /\ lastEdit = "none"
    /\ jobs = << >>
    /\ actor = 0

\* runAndResolveFile after the download function returned
ResolveStep ==
    /\ pc = "scan"
    /\ pc' = "scanned"
    /\ resolveOut' = ResolveOutput(files, OutputPath)
    /\ UNCHANGED << FFMPEG_PATH, files, clock, status, downloadedPath, hqLocals,
                    usedFallback, tickVars, stopVars, outbox, history, statSize,
                    twoJobVars, inbox, cleanups, hqTrace, lastEdit >>

NextResolve == ResolveStep

SpecResolve == InitResolve /\ [][NextResolve]_vars

(***************************************************************************)
(* Two handler runs at once: the handler for a second message starts while *)
(* the first is awaiting a download, and every step of either (the code    *)
(* between two awaits) interleaves with the other's.  Only the downloads   *)
(* directory is shared.  `origin` of a file is the job that created it.    *)
(* The chat side is left to Spec: whether the transport calls of a handler *)
(* (notices, sendVideo) succeed is one choice at the end of each run.      *)
(***************************************************************************)
Job == { 1, 2 }

Me(j) == jobs[j].outputPath

ForJobAll(names, outputPath) ==
    [i \in DOMAIN names |-> ForJob(names[i], outputPath)]

\* the finally block of downloadHighQualityMerged, for the job of outputPath
HqCleanupOf(dir, outputPath) ==
    cleanupByPrefix(cleanupByPrefix(dir, ForJob(VideoPrefix, outputPath)),
                    ForJob(AudioPrefix, outputPath))

\* how mergeWithFfmpeg settles for the job of outputPath
mergeWithFfmpegOf(o, dirAfter, outputPath) ==
    IF ~o.spawned
    THEN Error(<< "spawn ", ffmpegBin, " ENOENT" >>)
    ELSE IF o.code = "0" /\ existsSync(dirAfter, outputPath)
         THEN NoError
         ELSE Error(IF o.stderr # << >> THEN o.stderr
                    ELSE << "ffmpeg", " exited with code ", o.code >>)

\* the outcomes of the external tools taken up with two jobs: each stream
\* fetched, or failed leaving a partial file, with and without a marker
TwoJobVideoOutcomes ==
    { o \in VideoOutcomes :
        \/ o.error = NoError /\ Len(o.wrote) = 1 /\ ~IsPartial(o.wrote[1])
        \/ o.error # NoError /\ o.wrote # << >> }

TwoJobAudioOutcomes ==
    { o \in AudioOutcomes :
        \/ o.error = NoError /\ o.wrote # << >>
        \/ o.error = ErrNoEncoder /\ o.wrote # << >> }

TwoJobMergeOutcomes ==
    { o \in MergeOutcomes :
        \/ ~o.spawned
        \/ o.wrote /\ Len(o.stderr) = 3 }

TwoJobProgressiveOutcomes ==
    { o \in ProgressiveOutcomes : o.error = NoError /\ o.wrote # << >> }

InitTwoJobs ==
    /\ pc = "twoJobs"
    /\ \E p \in { OtherOutputPaths[i] : i \in DOMAIN OtherOutputPaths } :
          jobs = [j \in Job |->
                    [pc |-> "awaitVideo",
                     outputPath |-> IF j = 1 THEN OutputPath ELSE p,
                     videoPath |-> NoPath,
                     audioPath |-> NoPath,
                     downloadedPath |-> NoPath]]
    /\ actor = 0
    /\ files = {}
    /\ clock = 1
    /\ inbox = << >>
    /\ FFMPEG_PATH = ""
    /\ status = TRUE
    /\ downloadedPath = NoPath
    /\ videoPath = NoPath
    /\ audioPath = NoPath
    /\ usedFallback = FALSE
    /\ remaining = cycleSeconds
    /\ updating = FALSE
    /\ timerActive = FALSE
    /\ tickEdit = FALSE
    /\ finalEdit = FALSE
    /\ lastTick = "none"
    /\ shown = 0
    /\ finalTexts = << >>
    /\ outbox = << >>
    /\ hqStarts = 0
    /\ progStarts = 0
    /\ hqError = NoError
    /\ progError = NoError
    /\ thrown = NoError
    /\ resultOrigin = "none"
    /\ statSize = 0
    /\ resolveOut = NotResolved
    /\ cleanups = 0
    /\ hqTrace = << >>
    /\ lastEdit = "none"

oneJobVars ==
    << pc, FFMPEG_PATH, status, downloadedPath, hqLocals, usedFallback,
       tickVars, stopVars, outbox, history, statSize, resolveOut, inbox,
       cleanups, hqTrace, lastEdit >>

\* job j takes a step that leaves it at nextPc with the fields `changed`
JobStep(j, nextPc, changed) ==
    /\ actor' = j
    /\ jobs' = [jobs EXCEPT ![j] =
                  [f \in DOMAIN jobs[j] |->
                      IF f = "pc" THEN nextPc
                      ELSE IF f \in DOMAIN changed THEN changed[f]
                      ELSE jobs[j][f]]]

\* downloadVideo's catch for job j after its high-quality path failed
JobHqFailed(j, error) ==
    JobStep(j, IF downloadVideoCatch(error).fallback THEN "awaitProgressive"
               ELSE "awaitCatch",
            [videoPath |-> NoPath, audioPath |-> NoPath])

\* downloadSingleStream for the video stream of job j completed
JobVideoFetchDone(j, o) ==
    /\ jobs[j].pc = "awaitVideo"
    /\ clock' = clock + MaxWrites
    /\ LET prefix  == ForJob(VideoPrefix, Me(j))
           written == WriteAll(files, ForJobAll(o.wrote, Me(j)), clock, j)
           found   == resolveFileByPrefix(written, prefix)
       IN  IF o.error # NoError
           THEN files' = HqCleanupOf(written, Me(j)) /\ JobHqFailed(j, o.error)
           ELSE IF found = NoPath
                THEN /\ files' = HqCleanupOf(written, Me(j))
                     /\ JobHqFailed(j, ErrStreamNotFound(prefix))
                ELSE /\ files' = written
                     /\ JobStep(j, "awaitAudio", [videoPath |-> found])
    /\ UNCHANGED oneJobVars

\* downloadSingleStream for the audio stream of job j completed; on success
\* mergeWithFfmpeg deletes the output path and spawns the encoder
JobAudioFetchDone(j, o) ==
    /\ jobs[j].pc = "awaitAudio"
    /\ clock' = clock + MaxWrites
    /\ LET prefix  == ForJob(AudioPrefix, Me(j))
           written == WriteAll(files, ForJobAll(o.wrote, Me(j)), clock, j)
           found   == resolveFileByPrefix(written, prefix)
       IN  IF o.error # NoError
           THEN files' = HqCleanupOf(written, Me(j)) /\ JobHqFailed(j, o.error)
           ELSE IF found = NoPath
                THEN /\ files' = HqCleanupOf(written, Me(j))
                     /\ JobHqFailed(j, ErrStreamNotFound(prefix))
                ELSE /\ files' = safeDelete(written, Me(j))
                     /\ JobStep(j, "awaitMerge", [audioPath |-> found])
    /\ UNCHANGED oneJobVars

\* the encoder process of job j ended; the finally block runs, then
\* runAndResolveFile resolves the output, or the failure is classified
JobMergeDone(j, o) ==
    /\ jobs[j].pc = "awaitMerge"
    /\ clock' = clock + MaxWrites
    /\ LET written == IF o.spawned /\ o.wrote
                      THEN WriteFile(files, Me(j), clock, j)
                      ELSE files
           failure == mergeWithFfmpegOf(o, written, Me(j))
           cleaned == HqCleanupOf(written, Me(j))
           res     == ResolveOutput(cleaned, Me(j))
       IN  /\ files' = cleaned
           /\ IF failure # NoError
              THEN JobHqFailed(j, failure)
              ELSE IF res.error # NoError
                   THEN JobHqFailed(j, res.error)
                   ELSE JobStep(j, "awaitDelivery",
                                [videoPath |-> NoPath, audioPath |-> NoPath,
                                 downloadedPath |-> res.path])
    /\ UNCHANGED oneJobVars

\* the progressive download of job j ended; runAndResolveFile resolves
JobProgressiveDone(j, o) ==
    /\ jobs[j].pc = "awaitProgressive"
    /\ clock' = clock + MaxWrites
    /\ LET written == WriteAll(files, ForJobAll(o.wrote, Me(j)), clock, j)
           res     == ResolveOutput(written, Me(j))
       IN  /\ files' = written
           /\ IF res.error # NoError
              THEN JobStep(j, "awaitCatch", << >>)
              ELSE JobStep(j, "awaitDelivery", [downloadedPath |-> res.path])
    /\ UNCHANGED oneJobVars

\* the transport calls after downloadVideo returned have settled for job j:
\* the file was sent or announced as too large and is deleted, or a call
\* was rejected and the catch block is entered
JobDeliveryDone(j, ok) ==
    /\ jobs[j].pc = "awaitDelivery"
    /\ IF ok
       THEN /\ files' = safeDelete(files, jobs[j].downloadedPath)
            /\ JobStep(j, "returned", << >>)
       ELSE /\ files' = files
            /\ JobStep(j, "awaitCatch", << >>)
    /\ UNCHANGED << clock, oneJobVars >>

\* the failure notice of job j's catch block settled: the cleanup runs, or
\* the handler is left by the rejection
JobCatchDone(j, ok) ==
    /\ jobs[j].pc = "awaitCatch"
    /\ IF ok
       THEN /\ files' = IF jobs[j].downloadedPath # NoPath
                        THEN safeDelete(files, jobs[j].downloadedPath)
                        ELSE cleanupByPrefix(files, Me(j))
            /\ JobStep(j, "returned", << >>)
       ELSE /\ files' = files
            /\ JobStep(j, "rejected", << >>)
    /\ UNCHANGED << clock, oneJobVars >>

NextTwoJobs ==
    \E j \in Job :
        \/ \E o \in TwoJobVideoOutcomes : JobVideoFetchDone(j, o)
        \/ \E o \in TwoJobAudioOutcomes : JobAudioFetchDone(j, o)
        \/ \E o \in TwoJobMergeOutcomes : JobMergeDone(j, o)
        \/ \E o \in TwoJobProgressiveOutcomes : JobProgressiveDone(j, o)
        \/ \E ok \in BOOLEAN : JobDeliveryDone(j, ok)
        \/ \E ok \in BOOLEAN : JobCatchDone(j, ok)

SpecTwoJobs == InitTwoJobs /\ [][NextTwoJobs]_vars

(***************************************************************************)
(* Properties.                                                             *)
(***************************************************************************)
HandlerDone == pc \in { "returned", "rejected" }

HqRunning == pc \in { "awaitVideo", "awaitAudio", "awaitMerge" }

LoweredText(error) == toLowerCase(ErrorText(error))

HasMarker(error) ==
    \E i \in DOMAIN LoweredText(error) :
        LoweredText(error)[i] \in { "ffmpeg", "intermediate stream files",
                                    "stream output was not found" }

Called(call) == \E i \in DOMAIN outbox : outbox[i].call = call

Mtime(name) == Entry(files, name).mtime

Newest(S, name) == name \in S /\ \A other \in S : Mtime(name) >= Mtime(other)

JobFiles == { n \in Names(files) : StartsWith(n, RequestedBase) }

\* C1: over one downloadVideo call the high-quality path starts at most once
\* and the progressive path at most once; a high-quality failure whose text
\* contains "ffmpeg" starts the progressive path (once); a failure of the
\* progressive attempt is what downloadVideo throws, with no further attempt.
C1_FallbackOnce ==
    /\ hqStarts <= 1
    /\ progStarts <= 1
    /\ (hqError # NoError /\ includes(LoweredText(hqError), "ffmpeg"))
          => progStarts = 1
    /\ progError # NoError
          => /\ thrown = progError
             /\ progStarts = 1
             /\ hqStarts = 1
             /\ ~HqRunning
             /\ pc # "awaitProgressive"

C1_Witness ==
    /\ pc = "returned"
    /\ hqError # NoError
    /\ includes(LoweredText(hqError), "ffmpeg")
    /\ progError = ErrNetwork
    /\ thrown = ErrNetwork

\* C2: a high-quality failure whose text holds none of the fallback markers
\* never starts the progressive download, and downloadVideo throws that very
\* error.
C2_NoFallbackUnchanged ==
    (hqError # NoError /\ ~HasMarker(hqError))
        => /\ progStarts = 0
           /\ thrown = hqError
           /\ pc \notin { "awaitProgressive", "awaitFallbackNotice" }
           /\ ~usedFallback

C2_Witness ==
    /\ hqError = ErrNetwork
    /\ thrown = ErrNetwork
    /\ progStarts = 0
    /\ pc = "returned"

\* C3: once downloadHighQualityMerged has finished, normally or by a failure
\* of the video fetch, the audio fetch or the merge, the directory holds no
\* file whose name starts with the video-stream or audio-stream prefix.
C3_TempStreamsRemoved ==
    (hqStarts > 0 /\ ~HqRunning)
        => \A f \in files :
              /\ ~StartsWith(f.name, VideoPrefix)
              /\ ~StartsWith(f.name, AudioPrefix)

C3_Witness ==
    /\ pc = "awaitProgressive"
    /\ hqError = Error(<< "ffmpeg", " exited with code ", "1" >>)
    /\ existsSync(files, OutputPath)
    /\ \A f \in files : ~StartsWith(f.name, TempPrefix)

\* C4: the remaining-seconds counter is always within 1..30; a processed tick
\* takes it from n to n - 1, and from 1 back to 30; a skipped tick, a settled
\* or failed edit and every other step leave it alone; every seconds value
\* put in a status text is the counter's value, within 1..30.
C4_CounterCycle ==
    /\ [](remaining \in 1 .. cycleSeconds)
    /\ [](pc \notin { "idle", "ignored" } => shown \in 1 .. cycleSeconds)
    /\ [][ \/ remaining' = remaining
           \/ /\ ~updating
              /\ remaining' = IF remaining = 1 THEN cycleSeconds ELSE remaining - 1
              /\ shown' = remaining' ]_vars

C4_Witness ==
    /\ remaining = cycleSeconds
    /\ shown = cycleSeconds
    /\ tickEdit
    /\ lastTick = "skipped"

\* C5: when the handler has ended and the size read was above the limit:
\* sendVideo was never called, stop was called with the "too large" text, the
\* "too large" notice was sent and the file is deleted; when the size read was
\* at or below the limit, sendVideo was called.
C5_Original ==
    HandlerDone =>
        /\ statSize > TELEGRAM_VIDEO_LIMIT_BYTES
              => /\ ~Called("sendVideo")
                 /\ finalTexts # << >>
                 /\ finalTexts[1] = "Video too large to send."
                 /\ \E i \in DOMAIN outbox : outbox[i].text = "Video too large to send."
                 /\ ~existsSync(files, downloadedPath)
        /\ (statSize > 0 /\ statSize <= TELEGRAM_VIDEO_LIMIT_BYTES)
              => Called("sendVideo")

\* C6: when the handler has ended after a session was started, stop() has
\* been called and the timer is cleared; from then on no tick fires.
C6_StoppedOnEveryExit ==
    /\ []((HandlerDone /\ status) => (~timerActive /\ finalTexts # << >>))
    /\ [][HandlerDone => (remaining' = remaining /\ lastTick' = lastTick
                          /\ (tickEdit' => tickEdit))]_vars

C6_Witness ==
    /\ pc = "rejected"
    /\ status
    /\ \E i \in DOMAIN outbox : outbox[i].call = "sendVideo" /\ ~outbox[i].ok
    /\ lastTick = "processed"

\* C7: when the handler has ended, the directory holds no file whose name
\* starts with the job's output base name.
C7_Original == HandlerDone => JobFiles = {}

\* C8 (as claimed): when the exact output path is absent, resolution returns
\* the most recently modified entry that is neither partial nor intermediate
\* whenever one exists, raises "only intermediate" when every non-partial
\* recognized entry is intermediate, and raises "not found" when there are no
\* entries at all.
C8_Original ==
    LET clean == { n \in JobFiles : ~IsPartial(n) /\ ~IsIntermediate(n) }
        media == { n \in JobFiles : ~IsPartial(n) /\ IsRecognized(n) }
    IN  (pc = "scanned" /\ ~existsSync(files, OutputPath)) =>
            /\ clean # {} => /\ resolveOut.error = NoError
                             /\ Newest(clean, resolveOut.path)
            /\ (clean = {} /\ media # {}) => resolveOut.error = ErrOnlyIntermediate
            /\ JobFiles = {} => resolveOut.error = ErrOutputNotFound

\* C8 (amended): when the exact output path is absent, resolution looks only
\* at the non-partial entries with a recognized container extension; it
\* returns the most recently modified one that is .mp4 and not intermediate if
\* there is one, otherwise the most recently modified one that is not
\* intermediate; it raises "only intermediate" when there are such entries and
\* all are intermediate, and "not found" when there is none.
C8_ResolutionOrder ==
    LET media     == { n \in JobFiles : ~IsPartial(n) /\ IsRecognized(n) }
        cleanAny  == { n \in media : ~IsIntermediate(n) }
        cleanMp4s == { n \in cleanAny : IsMp4(n) }
    IN  (pc = "scanned" /\ ~existsSync(files, OutputPath)) =>
            IF cleanMp4s # {}
            THEN resolveOut.error = NoError /\ Newest(cleanMp4s, resolveOut.path)
            ELSE IF cleanAny # {}
                 THEN resolveOut.error = NoError /\ Newest(cleanAny, resolveOut.path)
                 ELSE /\ resolveOut.path = NoPath
                      /\ resolveOut.error =
                            IF media # {} THEN ErrOnlyIntermediate
                            ELSE ErrOutputNotFound

C8_Witness ==
    /\ pc = "scanned"
    /\ ~existsSync(files, OutputPath)
    /\ resolveOut.path = Ext(RequestedBase, << ".MP4" >>)
    /\ existsSync(files, Ext(RequestedBase, << ".mkv" >>))
    /\ Mtime(Ext(RequestedBase, << ".mkv" >>)) > Mtime(resolveOut.path)
    /\ existsSync(files, Ext(RequestedBase, << ".f18", ".mp4" >>))

\* C9: the file downloadVideo returns was written by a merge that succeeded
\* or by the progressive download of this job, and is neither partial nor
\* intermediate.
C9_Original ==
    /\ resultOrigin \in { "none", "merge", "progressive" }
    /\ downloadedPath # NoPath
          => ~IsPartial(downloadedPath) /\ ~IsIntermediate(downloadedPath)

\* C10: at most one status-message edit of the session is pending at any
\* time, tick edits and the final edit of stop() counted together.
C10_Original == ~(tickEdit /\ finalEdit)

(***************************************************************************)
(* C11: a message without a recognized link                                *)
(***************************************************************************)
\* no word of the text is a recognized video link
NoLink(text) == \A i \in 1..Len(text) : ~MatchesUrl(text[i])

\* everything a job would touch: the chat, the status session, the
\* downloads and the directory
jobEffects ==
    << outbox, status, timerActive, finalEdit, finalTexts, tickEdit, updating,
       hqStarts, progStarts, hqTrace, files, downloadedPath, hqLocals,
       usedFallback, cleanups, lastEdit >>

\* C11: handling a message whose text has no recognized video link ends the
\* handler at once and changes nothing a job would touch (no message sent or
\* edited, no session, no download, no file created or deleted), and nothing
\* happens afterwards.
C11_NoLinkNoJob ==
    [][ /\ (pc = "idle" /\ inbox # << >> /\ NoLink(Head(inbox)))
            => (pc' = "ignored" /\ UNCHANGED jobEffects)
        /\ pc # "ignored" ]_vars

C11_Witness ==
    /\ pc = "ignored"
    /\ inbox = << >>
    /\ outbox = << >>
    /\ hqStarts = 0

(***************************************************************************)
(* C12: cleanup on the failure paths                                       *)
(***************************************************************************)
FailureText == "Failed to download or send the video."

Count(text) == Cardinality({ i \in DOMAIN outbox : outbox[i].text = text })

\* the catch block of the handler was entered: its notice was attempted
CatchEntered == Count(FailureText) > 0

\* C12: when the handler has ended on a failure path, the catch block's
\* cleanup step has run, also when sending the failure notice itself failed.
C12_Original == (HandlerDone /\ CatchEntered) => cleanups >= 1

(***************************************************************************)
(* C13: stop() calls per handler run                                       *)
(***************************************************************************)
\* C13: within one run of the handler stop() is invoked at most once, so a
\* final status text once set is never followed by a different one.
C13_Original ==
    /\ Len(finalTexts) <= 1
    /\ \A i, j \in DOMAIN finalTexts : finalTexts[i] = finalTexts[j]

(***************************************************************************)
(* C14, C15: the steps of the high-quality path                            *)
(***************************************************************************)
LastStep == IF hqTrace = << >> THEN "none" ELSE hqTrace[Len(hqTrace)]

\* C14: whenever the merge step has failed, downloadVideo has started the
\* progressive path and has not propagated the merge failure, whatever the
\* encoder's error text and the configured encoder path.
C14_Original ==
    LastStep = "merge:failed" => (progStarts = 1 /\ thrown # hqError)

Position(step) == { i \in DOMAIN hqTrace : hqTrace[i] = step }

Before(a, b) == \A j \in Position(b) : \E i \in Position(a) : i < j

\* C15: the steps of the high-quality path run one after the other: each step
\* starts at most once, the audio fetch starts only after the video fetch
\* succeeded, the merge starts only after both fetches succeeded, nothing is
\* started after a failed fetch, and while a step is pending it is the latest
\* one started, with the paths of the earlier steps resolved.
C15_Sequential ==
    /\ \A step \in { "video:start", "audio:start", "merge:start" } :
            Cardinality(Position(step)) <= 1
    /\ Before("video:ok", "audio:start")
    /\ Before("video:ok", "merge:start")
    /\ Before("audio:ok", "merge:start")
    /\ \A i \in DOMAIN hqTrace :
            hqTrace[i] \in { "video:failed", "audio:failed" } => i = Len(hqTrace)
    /\ pc = "awaitVideo" => LastStep = "video:start"
    /\ pc = "awaitAudio" => (LastStep = "audio:start" /\ videoPath # NoPath)
    /\ pc = "awaitMerge" => /\ LastStep = "merge:start"
                            /\ videoPath # NoPath
                            /\ audioPath # NoPath
    /\ LastStep \in { "video:start", "audio:start", "merge:start" } => HqRunning

C15_Witness ==
    /\ pc = "awaitMerge"
    /\ hqTrace = << "video:start", "video:ok", "audio:start", "audio:ok",
                    "merge:start" >>

(***************************************************************************)
(* C16: the fallback notice                                                *)
(***************************************************************************)
FallbackText == "Sent fallback quality"

\* downloadVideo has returned and the handler is past the notice's place
PastNotice == downloadedPath # NoPath /\ pc # "awaitFallbackNotice"

\* C16: the fallback notice is sent exactly once for a job whose result came
\* from the progressive path and never otherwise, and downloadVideo returns
\* usedFallback = true exactly when the progressive attempt produced the
\* returned file.
C16_Original ==
    /\ Count(FallbackText) <= 1
    /\ downloadedPath = NoPath => Count(FallbackText) = 0
    /\ PastNotice => (Count(FallbackText) = 1 <=> usedFallback)
    /\ downloadedPath # NoPath
          => (usedFallback <=> resultOrigin = "progressive")

(***************************************************************************)
(* C17: the generic failure notice                                         *)
(***************************************************************************)
Delivered(text) ==
    Cardinality({ i \in DOMAIN outbox : outbox[i].text = text /\ outbox[i].ok })

\* a failure was raised inside the try block: downloadVideo threw, or a
\* transport call of the try block rejected
Failure ==
    \/ thrown # NoError
    \/ \E i \in DOMAIN outbox : outbox[i].text # FailureText /\ ~outbox[i].ok

\* the phrases of the errors the job has seen
ErrorPhrases ==
    UNION { { ErrorText(e)[i] : i \in DOMAIN ErrorText(e) } :
            e \in { hqError, progError, thrown } }

StaticTexts ==
    { "Processing video...", FallbackText, "Video too large to send.",
      "Here is your downloaded video.", FailureText }

NoErrorTextSent ==
    \A i \in DOMAIN outbox :
        outbox[i].text \in StaticTexts /\ outbox[i].text \notin ErrorPhrases

\* C17 as stated: after every failure the user has been sent the generic text
\* exactly once and never the error's own text; without a failure the generic
\* text is not sent.
C17_Original ==
    /\ NoErrorTextSent
    /\ (HandlerDone /\ Failure) => Delivered(FailureText) = 1
    /\ (HandlerDone /\ ~Failure) => Count(FailureText) = 0

\* C17, amended: after every failure the handler has called sendMessage with
\* the generic text exactly once, and without a failure never; the text
\* reaches the user unless that call itself is rejected, which ends the
\* handler with nothing more sent; no error text is ever passed to a send.
C17_NoticeAttemptedOnce ==
    /\ NoErrorTextSent
    /\ Count(FailureText) <= 1
    /\ HandlerDone => (Count(FailureText) = 1 <=> Failure)
    /\ (HandlerDone /\ Failure)
          => (Delivered(FailureText) = 1 <=> pc = "returned")
    /\ pc = "rejected"
          => /\ outbox[Len(outbox)].text = FailureText
             /\ ~outbox[Len(outbox)].ok

C17_Witness ==
    /\ pc = "rejected"
    /\ thrown # NoError
    /\ Count(FailureText) = 1
    /\ Delivered(FailureText) = 0

(***************************************************************************)
(* C18: failed status edits                                                *)
(***************************************************************************)
\* where the handler continues after each stop() call returned normally
AfterStop ==
    [ awaitStopSuccess  |-> "returned",
      awaitStopTooLarge |-> "awaitTooLargeNotice",
      awaitStopFailed   |-> "awaitFailureNotice" ]

\* the job as the handler and downloadVideo see it
jobFlow ==
    << pc, files, outbox, thrown, hqError, progError, hqStarts, progStarts,
       downloadedPath, usedFallback, timerActive, finalTexts >>

\* C18: an edit of the status message that fails, in a tick or in stop(),
\* never reaches the job: when a tick edit settles, failed or not, the busy
\* flag is released and the job is as it was; when the edit of stop()
\* settles, failed or not, the handler goes on after the stop() call with no
\* error raised; the busy flag is set only while a tick edit is pending, so
\* a tick is skipped only then and the tick after a failed edit is processed.
C18_EditFailuresSwallowed ==
    /\ [][ /\ (tickEdit /\ ~tickEdit')
              => (~updating' /\ UNCHANGED jobFlow)
           /\ (finalEdit /\ ~finalEdit')
              => /\ pc \in DOMAIN AfterStop
                 /\ pc' = AfterStop[pc]
                 /\ UNCHANGED << thrown, outbox, finalTexts >>
           /\ (lastTick' = "skipped" /\ lastTick # "skipped") => tickEdit
           /\ (timerActive /\ ~updating /\ lastTick' # lastTick)
              => (lastTick' = "processed" /\ tickEdit')
         ]_vars
    /\ [](updating <=> tickEdit)

C18_Witness ==
    /\ lastEdit = "failed"
    /\ timerActive
    /\ tickEdit
    /\ lastTick = "processed"
    /\ pc = "awaitAudio"

(***************************************************************************)
(* C19: two concurrent jobs                                                *)
(***************************************************************************)
PathFields == { "videoPath", "audioPath", "downloadedPath" }

CreatedBy(dir, path, j) == existsSync(dir, path) /\ Entry(dir, path).origin = j

\* the step leaves every file of the other job as it was
OthersFilesKept(j) == \A f \in files : f.origin # j => f \in files'

\* a path the step selects names a file the job itself created
SelectsOwn(j) ==
    \A field \in PathFields :
        (jobs'[j][field] # jobs[j][field] /\ jobs'[j][field] # NoPath)
            => CreatedBy(files', jobs'[j][field], j)

\* C19: with two jobs running for different messages, in any interleaving,
\* every step of a job selects only files that this job created, delivers
\* only such a file, deletes or overwrites no file of the other job, and
\* leaves the other job's position and paths alone.
C19_JobsDisjoint ==
    /\ [][ /\ actor' \in Job
           /\ SelectsOwn(actor')
           /\ OthersFilesKept(actor')
           /\ \A k \in Job \ { actor' } : jobs'[k] = jobs[k] ]_vars
    /\ [](\A j \in Job :
            jobs[j].pc = "awaitDelivery"
                => CreatedBy(files, jobs[j].downloadedPath, j))

\* the second job, whose message id is a prefix of the first's, resolved its
\* file by the directory scan while an older clean media file of the first
\* job was in the directory
C19_Witness ==
    /\ pc = "twoJobs"
    /\ Me(2) = OtherOutputPaths[1]
    /\ jobs[2].pc = "awaitDelivery"
    /\ jobs[2].downloadedPath # Me(2)
    /\ \E f \in files :
          /\ f.origin = 1
          /\ IsRecognized(f.name) /\ ~IsIntermediate(f.name)
          /\ f.mtime < Entry(files, jobs[2].downloadedPath).mtime

====
